---- MODULE Spec2Model ----
(***************************************************************************)
(* The annotation canvas of the image annotating tool: the Canvas          *)
(* component (src/src/components/Canvas/Canvas.tsx, the component that     *)
(* starts at line 980) driven by the Home page (src/src/app/page.tsx, the  *)
(* page that starts at line 87).                                           *)
(*                                                                         *)
(* The state is the fabric canvas' object list, the annotation list, the   *)
(* undo log, the polygon tool's marker and guide-line stacks, the          *)
(* restoring flag, the props the page supplies, and what is in flight:     *)
(* a requested render (requestRenderAll waits for the next animation       *)
(* frame), the object reconstructions undo() started (a Promise), and the  *)
(* image decodes loadImage started (a Promise).                            *)
(*                                                                         *)
(* fabric facts the model relies on: add(), remove() and clear() request a *)
(* render; renderAll() renders at once and drops a requested render; every *)
(* render fires after:render; toJSON() serialises every object on the      *)
(* canvas, markers and guide lines included, and an object rebuilt by      *)
(* enlivenObjects is a new object.                                         *)
(***************************************************************************)
EXTENDS Integers, Sequences, FiniteSets, TLC

VARIABLES
  objects,               \* mainCanvasRef.current.getObjects(), in canvas order
  background,            \* mainCanvasRef.current.backgroundImage (0: none)
  annotations,           \* the annotations state of the component
  historyRef,            \* historyRef.current: the snapshot log
  currentPolygonPoints,  \* currentPolygonPoints.current: the marker stack
  currentPolygonLines,   \* currentPolygonLines.current: the guide-line stack
  isRestoringState,      \* isRestoringState.current
  renderRequested,       \* a requestRenderAll() waits for the next frame
  restores,              \* snapshots whose enlivenObjects promise is pending
  tool,                  \* prop tool
  selectedClass,         \* prop selectedClass (a class id, 0: null)
  brushSize,             \* prop brushSize
  imageUrl,              \* prop imageUrl (0: null)
  loads,                 \* image sources whose decode is pending
  download,              \* what the handler that ran last handed to the browser
  lastEvent,             \* the handler that ran last
  events,                \* how many handlers have run
  scn,                   \* the observer of the scripted runs (idle under Spec)
  args,                  \* the arguments of a utility function called on its own
  result                 \* what that call returned

vars == <<objects, background, annotations, historyRef, currentPolygonPoints,
          currentPolygonLines, isRestoringState, renderRequested, restores,
          tool, selectedClass, brushSize, imageUrl, loads, download,
          lastEvent, events, scn, args, result>>

(***************************************************************************)
(* Bounds of the model.                                                    *)
(***************************************************************************)
MaxObjects == 3        \* objects on the canvas at once
MaxAnnotations == 2    \* entries of the annotation list
MaxHistory == 4        \* snapshots in the log
MaxRestores == 1       \* reconstructions in flight
MaxLoads == 1          \* image decodes in flight
MaxEvents == 7         \* handlers run, render passes and completions included

(***************************************************************************)
(* Program constants and the inputs the model draws from.                  *)
(***************************************************************************)
CLOSE_THRESHOLD == 10  \* Threshold distance to close polygon
HistoryCap == 50       \* "Keep only last 50 states"
DefaultBrushSize == 10

NoClass == 0           \* selectedClass === null
NoImage == 0           \* imageUrl === null, no backgroundImage

\* The catalog the page passes as the classes prop: the first two of
\* initialClasses. A colour "#RRGGBB" is the sequence of its characters.
classes ==
  << [id |-> 1, name |-> "Car",
      color |-> <<"#", "F", "F", "0", "0", "0", "0">>],
     [id |-> 2, name |-> "Tree",
      color |-> <<"#", "0", "0", "F", "F", "0", "0">>] >>

ClassIds == {classes[i].id : i \in DOMAIN classes}

ClassOf(id) == classes[CHOOSE i \in DOMAIN classes : classes[i].id = id]

Black == <<"#", "0", "0", "0", "0", "0", "0">>        \* "#000000"

\* Pointer positions canvas.getPointer can report: (0,0) and (6,8) lie
\* exactly CLOSE_THRESHOLD apart, (0,0) and (3,4) half of it, (40,0) is far
\* from all.
Pointers == {<<0, 0>>, <<3, 4>>, <<6, 8>>, <<40, 0>>}

BrushSizes == {DefaultBrushSize, 25}   \* two positions of the 1..50 slider
Tools == {"brush", "polygon"}          \* what handleSetTool is called with
Images == {1, 2}                       \* data URLs of uploaded files

(***************************************************************************)
(* Colours.                                                                *)
(***************************************************************************)
UpperDigits ==
  <<"0", "1", "2", "3", "4", "5", "6", "7", "8", "9",
    "A", "B", "C", "D", "E", "F">>

LowerDigits ==
  <<"0", "1", "2", "3", "4", "5", "6", "7", "8", "9",
    "a", "b", "c", "d", "e", "f">>

DecimalChars == {UpperDigits[i] : i \in 1..10}

HexChars ==
  {UpperDigits[i] : i \in 1..16} \cup {LowerDigits[i] : i \in 1..16}

\* The value of one hex digit, either case
HexValue(ch) ==
  (CHOOSE i \in 1..16 : UpperDigits[i] = ch \/ LowerDigits[i] = ch) - 1

\* parseInt(text, 16) of a text of hex digits
RECURSIVE parseInt16(_)
parseInt16(text) ==
  IF text = <<>> THEN 0
  ELSE 16 * parseInt16(SubSeq(text, 1, Len(text) - 1))
         + HexValue(text[Len(text)])

\* String.prototype.toUpperCase on the characters colours are written in
toUpperCase(text) ==
  [i \in DOMAIN text |->
     IF \E j \in 11..16 : LowerDigits[j] = text[i]
     THEN UpperDigits[CHOOSE j \in 11..16 : LowerDigits[j] = text[i]]
     ELSE text[i]]

\* n.toString(16).padStart(2, "0") for n in 0..255
toHexByte(n) == <<LowerDigits[(n \div 16) + 1], LowerDigits[(n % 16) + 1]>>

\* A JavaScript number with a finite decimal expansion: m * 10^(-e), m
\* without trailing zeros.
Decimal(m, e) == [m |-> m, e |-> e]

RECURSIVE Pow10(_)
Pow10(e) == IF e = 0 THEN 1 ELSE 10 * Pow10(e - 1)

\* The decimal digits of a natural number
RECURSIVE Digits(_)
Digits(n) ==
  IF n < 10 THEN <<UpperDigits[n + 1]>>
  ELSE Append(Digits(n \div 10), UpperDigits[(n % 10) + 1])

Zeros(n) == [i \in 1..n |-> "0"]

\* Number::toString, which a template literal applies: with k digits and
\* the decimal point n places right of the first digit, plain notation for
\* -6 < n <= 21, exponent notation below.
NumberToString(x) ==
  IF x.m = 0 THEN <<"0">>
  ELSE LET ds == Digits(x.m)
           k  == Len(ds)
           n  == k - x.e
       IN IF n >= k THEN ds \o Zeros(n - k)
          ELSE IF n > 0
            THEN SubSeq(ds, 1, n) \o <<".">> \o SubSeq(ds, n + 1, k)
          ELSE IF n > -6 THEN <<"0", ".">> \o Zeros(-n) \o ds
          ELSE <<ds[1]>> \o (IF k > 1 THEN <<".">> \o Tail(ds) ELSE <<>>)
                 \o <<"e", "-">> \o Digits(1 - n)

\* What a call leaves the caller with: a value, or a throw
Returned(v) == [value |-> v]

Thrown(message) == [thrown |-> message]

\* /^#?[0-9A-Fa-f]{6}$/ and hex.replace(/^#/, "")
StripHash(hex) == IF hex # <<>> /\ hex[1] = "#" THEN Tail(hex) ELSE hex

IsHexColor(hex) ==
  /\ Len(StripHash(hex)) = 6
  /\ \A i \in 1..6 : StripHash(hex)[i] \in HexChars

\* hexToRgba: the string "rgba(r, g, b, alpha)", kept as its three numbers
\* and the text the alpha was written as.
hexToRgba(hex, alpha) ==
  IF ~IsHexColor(hex) THEN Thrown("Invalid HEX format. Use #RRGGBB or RRGGBB.")
  ELSE LET h == StripHash(hex)
       IN [r |-> parseInt16(SubSeq(h, 1, 2)),
           g |-> parseInt16(SubSeq(h, 3, 4)),
           b |-> parseInt16(SubSeq(h, 5, 6)),
           a |-> NumberToString(alpha)]

\* [\d.]+ : the alpha text the two parsers accept
IsAlphaText(text) ==
  /\ text # <<>>
  /\ \A i \in DOMAIN text : text[i] \in DecimalChars \cup {"."}

\* /^rgba?\(\s*(\d{1,3})\s*,\s*(\d{1,3})\s*,\s*(\d{1,3})(?:\s*,\s*([\d.]+))?\)$/
MatchesRgba(rgbaStr) ==
  /\ {"r", "g", "b"} \subseteq DOMAIN rgbaStr
  /\ \A c \in {"r", "g", "b"} : rgbaStr[c] \in 0..999
  /\ "a" \in DOMAIN rgbaStr => IsAlphaText(rgbaStr.a)

\* parseFloat of a text of digits and points: the digits up to a second
\* point, as m * 10^(-e).
RECURSIVE parseDigits(_)
parseDigits(text) ==
  IF text = <<>> THEN 0
  ELSE 10 * parseDigits(SubSeq(text, 1, Len(text) - 1))
         + HexValue(text[Len(text)])

parseFloat(text) ==
  LET points == {i \in DOMAIN text : text[i] = "."}
      first  == IF points = {} THEN Len(text) + 1
                ELSE CHOOSE i \in points : \A j \in points : i <= j
      rest   == {i \in points : i > first}
      last   == IF rest = {} THEN Len(text)
                ELSE (CHOOSE i \in rest : \A j \in rest : i <= j) - 1
      whole  == SubSeq(text, 1, first - 1)
      frac   == SubSeq(text, first + 1, last)
  IN Decimal(parseDigits(whole \o frac), Len(frac))

\* Math.round(Math.max(0, Math.min(1, x)) * 255)
alphaByte(x) ==
  IF x.m > Pow10(x.e) THEN 255
  ELSE (2 * 255 * x.m + Pow10(x.e)) \div (2 * Pow10(x.e))

Min255(n) == IF n > 255 THEN 255 ELSE n

\* rgbaToHex: "#RRGGBBAA", or "#RRGGBB" when the string has no alpha
rgbaToHex(rgbaStr) ==
  IF ~MatchesRgba(rgbaStr) THEN Thrown("Invalid RGBA string")
  ELSE LET rr == toHexByte(Min255(rgbaStr.r))
           gg == toHexByte(Min255(rgbaStr.g))
           bb == toHexByte(Min255(rgbaStr.b))
       IN IF "a" \in DOMAIN rgbaStr
          THEN Returned(toUpperCase(
                 <<"#">> \o rr \o gg \o bb
                   \o toHexByte(alphaByte(parseFloat(rgbaStr.a)))))
          ELSE Returned(toUpperCase(<<"#">> \o rr \o gg \o bb))

\* getClassFromColor: the first class whose colour, upper-cased, is the
\* "#RRGGBB" of the string; undefined (no class) otherwise.
Undefined == [undefined |-> TRUE]

getClassFromColor(catalog, rgbaColor) ==
  IF ~MatchesRgba(rgbaColor) THEN Undefined
  ELSE LET hexColor == toUpperCase(<<"#">> \o toHexByte(Min255(rgbaColor.r))
                                     \o toHexByte(Min255(rgbaColor.g))
                                     \o toHexByte(Min255(rgbaColor.b)))
           found == {i \in DOMAIN catalog :
                       toUpperCase(catalog[i].color) = hexColor}
       IN IF found = {} THEN Undefined
          ELSE catalog[CHOOSE i \in found : \A j \in found : i <= j]

(***************************************************************************)
(* Canvas objects. id stands for the identity of the JavaScript object;    *)
(* color is the colour that encodes the class (fill of a marker, stroke of *)
(* the others); pts are the coordinates the object was built from.         *)
(***************************************************************************)
Circle(id, p, cls) ==
  [id |-> id, type |-> "circle",
   color |-> hexToRgba(ClassOf(cls).color, Decimal(8, 1)), pts |-> <<p>>]

Line(id, p, q, cls) ==
  [id |-> id, type |-> "line",
   color |-> hexToRgba(ClassOf(cls).color, Decimal(8, 1)), pts |-> <<p, q>>]

Polygon(id, points, cls) ==
  [id |-> id, type |-> "polygon",
   color |-> hexToRgba(ClassOf(cls).color, Decimal(8, 1)), pts |-> points]

\* The path PencilBrush adds at the end of a stroke, in the brush colour the
\* tool effect set. The freehand geometry is not modelled.
Path(id, cls) ==
  [id |-> id, type |-> "path",
   color |-> hexToRgba(IF cls = NoClass THEN Black ELSE ClassOf(cls).color,
             Decimal(35, 2)),
   pts |-> <<>>]

IsTemporary(o) == o.type = "line" \/ o.type = "circle"

IsCommitted(o) == o.type = "path" \/ o.type = "polygon"

Ids(seq) == {seq[i].id : i \in DOMAIN seq}

\* canvas.remove(...): the list without the objects named by ids
Without(objs, ids) == SelectSeq(objs, LAMBDA o : o.id \notin ids)

Temporaries(objs) == SelectSeq(objs, IsTemporary)

CommittedObjects(objs) == SelectSeq(objs, IsCommitted)

\* An identity no live reference holds: the least id outside used.
NewId(used) ==
  CHOOSE i \in 1..(Cardinality(used) + 1) :
    i \notin used /\ \A j \in 1..(i - 1) : j \in used

\* Every object some reference of the component can still reach.
Referenced(objs, anns, points, lines) ==
  Ids(objs) \cup {anns[i].object : i \in DOMAIN anns}
            \cup Ids(points) \cup Ids(lines)

\* canvas.toJSON().objects: the objects in canvas order, without identity
toJSON(objs) ==
  [i \in DOMAIN objs |->
     [type |-> objs[i].type, color |-> objs[i].color, pts |-> objs[i].pts]]

\* A variant of enlivenOnto below that adds the rebuilt objects last to
\* first; UndoRestoresNewTail tells the two apart.
RECURSIVE enlivenOntoReversed(_, _, _)
enlivenOntoReversed(objs, serialised, used) ==
  IF serialised = <<>> THEN objs
  ELSE LET id == NewId(used \cup Ids(objs))
           s  == serialised[Len(serialised)]
       IN enlivenOntoReversed(
            Append(objs, [id |-> id, type |-> s.type, color |-> s.color,
                          pts |-> s.pts]),
            SubSeq(serialised, 1, Len(serialised) - 1), used)

\* util.enlivenObjects followed by canvas.add of each: the serialised
\* objects appended to objs as new objects.
RECURSIVE enlivenOnto(_, _, _)
enlivenOnto(objs, serialised, used) ==
  IF serialised = <<>> THEN objs
  ELSE LET id == NewId(used \cup Ids(objs))
           s  == Head(serialised)
       IN enlivenOnto(
            Append(objs, [id |-> id, type |-> s.type, color |-> s.color,
                          pts |-> s.pts]),
            Tail(serialised), used)

DropAt(seq, i) == SubSeq(seq, 1, i - 1) \o SubSeq(seq, i + 1, Len(seq))

(***************************************************************************)
(* The undo log.                                                           *)
(***************************************************************************)
\* A variant of saveCanvasState below that keeps the first HistoryCap states
\* (slice(0, 50)); LogKeepsNewest tells the two apart.
saveCanvasStateKeepingOldest(history, objs, restoring) ==
  IF restoring THEN history
  ELSE LET h == Append(history, [objects |-> toJSON(objs)])
       IN IF Len(h) > HistoryCap THEN SubSeq(h, 1, HistoryCap) ELSE h

\* saveCanvasState: append canvas.toJSON(), keep the last HistoryCap states.
\* Of a snapshot only the objects are modelled: undo() reads nothing else.
saveCanvasState(history, objs, restoring) ==
  IF restoring THEN history
  ELSE LET h == Append(history, [objects |-> toJSON(objs)])
       IN IF Len(h) > HistoryCap
          THEN SubSeq(h, Len(h) - HistoryCap + 1, Len(h))
          ELSE h

\* The after:render handler: every render pass outside a restore saves.
afterRender(history, objs, restoring) ==
  IF ~restoring THEN saveCanvasState(history, objs, restoring) ELSE history

\* A variant of the guard below that lets undo() pop the only snapshot;
\* UndoWithOneSnapshotIsNoOp tells the two apart.
NothingToUndoOffByOne(history) == Len(history) < 1

\* The guard of undo(): nothing to go back to.
NothingToUndo(history) == Len(history) <= 1

(***************************************************************************)
(* The export document, as far as validateCOCO looks at it.                *)
(***************************************************************************)
WellFormedUrls ==
  {"https://your-website.com",
   "https://creativecommons.org/licenses/by-nc-sa/4.0/",
   "https://your-url.com",
   "https://creativecommons.org/licenses/by/4.0/",
   "https://example.com/coco-url",
   "https://www.flickr.com/photos/tags/flicker/"}

\* z.string().url()
IsUrl(s) == s \in WellFormedUrls

\* The values of the document's fields that are not numbers by
\* construction: a number, or null.
Num(n) == [number |-> n]

Null == [null |-> TRUE]

\* z.number()
IsNumber(v) == "number" \in DOMAIN v

\* The size the canvas was created with when the container reports none
\* (container.clientWidth || 800, container.clientHeight || 600).
DefaultCanvas == [width |-> 800, height |-> 600]

\* The annotationsData of exportToCOCO: one entry per annotation, numbered
\* from 1, category_id the class id or 0. The entries carry no image_id.
annotationsData(anns) ==
  [i \in DOMAIN anns |->
     [id |-> i, category_id |-> Num(anns[i].class), iscrowd |-> 0]]

\* The images of exportToCOCO, for a canvas of the given size
exportedImages(canvas) ==
  <<[license |-> 1, file_name |-> "image.jpg", coco_url |-> "",
     height |-> canvas.height, width |-> canvas.width, flickr_url |-> "",
     id |-> Num(1)]>>

cocoData(anns) ==
  [info |-> [url |-> "https://your-website.com"],
   licenses |-> <<[url |-> "https://creativecommons.org/licenses/by-nc-sa/4.0/",
                   id |-> 1]>>,
   images |-> exportedImages(DefaultCanvas),
   annotations |-> annotationsData(anns),
   categories |-> [i \in DOMAIN classes |->
                     [supercategory |-> "none", id |-> Num(classes[i].id),
                      name |-> classes[i].name]]]

\* validateCOCO: cocoSchema.parse succeeds. The fields that are numbers and
\* strings by construction are not re-checked here; the URLs, the presence
\* of each annotation's required keys and the ids that may be null are.
validateCOCO(doc) ==
  /\ IsUrl(doc.info.url)
  /\ \A i \in DOMAIN doc.licenses : IsUrl(doc.licenses[i].url)
  /\ \A i \in DOMAIN doc.images :
       /\ IsUrl(doc.images[i].coco_url)
       /\ IsUrl(doc.images[i].flickr_url)
       /\ IsNumber(doc.images[i].id)
  /\ \A i \in DOMAIN doc.annotations :
       /\ {"image_id", "category_id", "id", "iscrowd"}
             \subseteq DOMAIN doc.annotations[i]
       /\ IsNumber(doc.annotations[i].image_id)
       /\ IsNumber(doc.annotations[i].category_id)
  /\ \A i \in DOMAIN doc.categories : IsNumber(doc.categories[i].id)

(***************************************************************************)
(* The state after mount: the init effect saved the empty canvas once and  *)
(* the cleanup effect requested a render; the page starts with no tool, no *)
(* class, no image.                                                        *)
(***************************************************************************)
NoDownload == [done |-> FALSE, valid |-> FALSE]

ScnIdle == [phase |-> "idle", commits |-> 0, undos |-> 0, before |-> <<>>]

Mounted ==
  /\ objects = <<>>
  /\ background = NoImage
  /\ annotations = <<>>
  /\ historyRef = saveCanvasState(<<>>, <<>>, FALSE)
  /\ currentPolygonPoints = <<>>
  /\ currentPolygonLines = <<>>
  /\ isRestoringState = FALSE
  /\ renderRequested = TRUE
  /\ restores = <<>>
  /\ tool = "none"
  /\ selectedClass = NoClass
  /\ brushSize = DefaultBrushSize
  /\ imageUrl = NoImage
  /\ loads = <<>>
  /\ download = NoDownload
  /\ lastEvent = "mount"
  /\ events = 0

\* No utility function is being called on its own.
NoArgs == [none |-> TRUE]

NoResult == [step |-> "none"]

NoCall == args = NoArgs /\ result = NoResult

Init == Mounted /\ scn = ScnIdle /\ NoCall

(***************************************************************************)
(* The page: tool, class and brush-size controls, file upload.             *)
(***************************************************************************)
\* A variant of toolEffects below without the effect that removes lines and
\* circles; ToolSwitchCleansUp tells the two apart.
toolEffectsKeepingTemporaries ==
  /\ currentPolygonPoints' = <<>>
  /\ currentPolygonLines' = <<>>
  /\ objects' = objects
  /\ renderRequested' = TRUE

\* What a change of tool or selectedClass runs: the tool effect's cleanup
\* and body (handlers re-bound, stacks emptied) and the effect that removes
\* every line and circle from the canvas and requests a render.
toolEffects ==
  /\ currentPolygonPoints' = <<>>
  /\ currentPolygonLines' = <<>>
  /\ objects' = SelectSeq(objects, LAMBDA o : ~IsTemporary(o))
  /\ renderRequested' = TRUE

handleSetTool(t) ==
  /\ lastEvent' = "handleSetTool"
  /\ download' = NoDownload
  /\ IF selectedClass = NoClass \/ t = tool
     THEN UNCHANGED <<objects, background, annotations, historyRef,
                      currentPolygonPoints, currentPolygonLines,
                      isRestoringState, renderRequested, restores, tool,
                      selectedClass, brushSize, imageUrl, loads>>
     ELSE /\ tool' = t
          /\ toolEffects
          /\ UNCHANGED <<background, annotations, historyRef,
                         isRestoringState, restores, selectedClass,
                         brushSize, imageUrl, loads>>

onClassSelect(c) ==
  /\ lastEvent' = "onClassSelect"
  /\ download' = NoDownload
  /\ IF c = selectedClass
     THEN UNCHANGED <<objects, background, annotations, historyRef,
                      currentPolygonPoints, currentPolygonLines,
                      isRestoringState, renderRequested, restores, tool,
                      selectedClass, brushSize, imageUrl, loads>>
     ELSE /\ selectedClass' = c
          /\ toolEffects
          /\ UNCHANGED <<background, annotations, historyRef,
                         isRestoringState, restores, tool, brushSize,
                         imageUrl, loads>>

\* A changed brushSize prop. A change of brushSize alone runs the tool
\* effect, which empties the stacks, not the removing effect.
brushSizeChanged(b) ==
  /\ b # brushSize
  /\ lastEvent' = "setBrushSize"
  /\ download' = NoDownload
  /\ brushSize' = b
  /\ currentPolygonPoints' = <<>>
  /\ currentPolygonLines' = <<>>
  /\ UNCHANGED <<objects, background, annotations, historyRef,
                 isRestoringState, renderRequested, restores, tool,
                 selectedClass, imageUrl, loads>>

\* The size slider of the page, rendered only while the brush is the tool.
setBrushSize(b) == tool = "brush" /\ brushSizeChanged(b)

\* handleFileUpload: the reader hands the data URL to setImageUrl, and the
\* image effect starts loadImage, which awaits the decode.
handleFileUpload(u) ==
  /\ lastEvent' = "handleFileUpload"
  /\ download' = NoDownload
  /\ IF u = imageUrl
     THEN UNCHANGED <<imageUrl, loads>>
     ELSE imageUrl' = u /\ loads' = Append(loads, u)
  /\ UNCHANGED <<objects, background, annotations, historyRef,
                 currentPolygonPoints, currentPolygonLines, isRestoringState,
                 renderRequested, restores, tool, selectedClass, brushSize>>

\* loadImage after a successful decode: canvas.clear(), then the image is
\* installed as the background.
imageLoaded(i) ==
  /\ i \in DOMAIN loads
  /\ lastEvent' = "loadImage"
  /\ download' = NoDownload
  /\ objects' = <<>>
  /\ background' = loads[i]
  /\ renderRequested' = TRUE
  /\ loads' = DropAt(loads, i)
  /\ UNCHANGED <<annotations, historyRef, currentPolygonPoints,
                 currentPolygonLines, isRestoringState, restores, tool,
                 selectedClass, brushSize, imageUrl>>

\* A variant of imageFailed below in which the canvas was cleared before
\* the decode was awaited; FailedLoadChangesNothing tells the two apart.
imageFailedAfterClear(i) ==
  /\ i \in DOMAIN loads
  /\ lastEvent' = "loadImageError"
  /\ download' = NoDownload
  /\ objects' = <<>>
  /\ background' = NoImage
  /\ renderRequested' = TRUE
  /\ loads' = DropAt(loads, i)
  /\ UNCHANGED <<annotations, historyRef, currentPolygonPoints,
                 currentPolygonLines, isRestoringState, restores, tool,
                 selectedClass, brushSize, imageUrl>>

\* loadImage when the decode fails: the error is logged.
imageFailed(i) ==
  /\ i \in DOMAIN loads
  /\ lastEvent' = "loadImageError"
  /\ download' = NoDownload
  /\ loads' = DropAt(loads, i)
  /\ UNCHANGED <<objects, background, annotations, historyRef,
                 currentPolygonPoints, currentPolygonLines, isRestoringState,
                 renderRequested, restores, tool, selectedClass, brushSize,
                 imageUrl>>

(***************************************************************************)
(* The canvas: the two tools, render passes, undo, removal, export.        *)
(***************************************************************************)
\* A variant of handlePathCreated below that, like the polygon tool, records
\* no annotation while no class is selected; StrokeAppendsAnnotation tells
\* the two apart.
handlePathCreatedBlocking ==
  /\ tool = "brush"
  /\ lastEvent' = "handlePathCreated"
  /\ download' = NoDownload
  /\ LET path == Path(NewId(Referenced(objects, annotations,
                                       currentPolygonPoints,
                                       currentPolygonLines)),
                      selectedClass)
     IN /\ objects' = Append(objects, path)
        /\ annotations' = IF selectedClass = NoClass THEN annotations
                          ELSE Append(annotations,
                                      [type |-> "path",
                                       class |-> selectedClass,
                                       object |-> path.id])
  /\ renderRequested' = TRUE
  /\ UNCHANGED <<background, historyRef, currentPolygonPoints,
                 currentPolygonLines, isRestoringState, restores, tool,
                 selectedClass, brushSize, imageUrl, loads>>

\* path:created in the brush tool. PencilBrush has added the path to the
\* canvas (a render is requested); the handler appends its annotation.
handlePathCreated ==
  /\ tool = "brush"
  /\ lastEvent' = "handlePathCreated"
  /\ download' = NoDownload
  /\ LET path == Path(NewId(Referenced(objects, annotations,
                                       currentPolygonPoints,
                                       currentPolygonLines)),
                      selectedClass)
     IN /\ objects' = Append(objects, path)
        /\ annotations' = Append(annotations,
                                 [type |-> "path", class |-> selectedClass,
                                  object |-> path.id])
  /\ renderRequested' = TRUE
  /\ UNCHANGED <<background, historyRef, currentPolygonPoints,
                 currentPolygonLines, isRestoringState, restores, tool,
                 selectedClass, brushSize, imageUrl, loads>>

\* Math.sqrt(dx * dx + dy * dy) < CLOSE_THRESHOLD, on integer coordinates
Near(p, q) ==
  (p[1] - q[1]) * (p[1] - q[1]) + (p[2] - q[2]) * (p[2] - q[2])
     < CLOSE_THRESHOLD * CLOSE_THRESHOLD

\* The vertex count from which a pointer-down is tested for closure
\* (currentPolygonPoints.current.length > 2, the new marker included).
ClosureChecked(points) == Len(points) > 2

\* A variant of withoutClosingClick below that keeps the marker of the
\* closing click; ClosingClickIsNoVertex tells the two apart.
keepingClosingClick(points) == points

\* currentPolygonPoints.current.pop() on closure: the marker of the closing
\* click leaves the stack.
withoutClosingClick(points) == SubSeq(points, 1, Len(points) - 1)

\* mouse:down with a class selected: the marker, the guide line, and the
\* closure.
placeVertex(p) ==
  LET used == Referenced(objects, annotations, currentPolygonPoints,
                         currentPolygonLines)
      circle == Circle(NewId(used), p, selectedClass)
      points1 == Append(currentPolygonPoints, circle)
      linked == Len(points1) > 1
      line == Line(NewId(used \cup {circle.id}),
                   points1[Len(points1) - 1].pts[1], p, selectedClass)
      objects1 == IF linked THEN objects \o <<circle, line>>
                  ELSE Append(objects, circle)
      lines1 == IF linked THEN Append(currentPolygonLines, line)
                ELSE currentPolygonLines
      firstPoint == points1[1]
      closes == ClosureChecked(points1) /\ Near(p, firstPoint.pts[1])
      \* closing: the new marker is dropped, the closing line added
      points2 == withoutClosingClick(points1)
      closingLine == Line(NewId(used \cup {circle.id, line.id}),
                          points2[Len(points2)].pts[1],
                          firstPoint.pts[1], selectedClass)
      lines2 == Append(lines1, closingLine)
      \* what stays once the stacks' objects are removed
      kept == Without(Append(Without(objects1, {circle.id}), closingLine),
                      Ids(points2) \cup Ids(lines2))
      polygon == Polygon(NewId(Referenced(kept, annotations, <<>>, <<>>)),
                         [i \in DOMAIN points2 |-> points2[i].pts[1]],
                         selectedClass)
  IN IF closes
     THEN /\ objects' = Append(kept, polygon)
          /\ currentPolygonPoints' = <<>>
          /\ currentPolygonLines' = <<>>
          /\ annotations' = Append(annotations,
                                   [type |-> "polygon",
                                    class |-> selectedClass,
                                    object |-> polygon.id])
          /\ renderRequested' = TRUE
     ELSE /\ objects' = objects1
          /\ currentPolygonPoints' = points1
          /\ currentPolygonLines' = lines1
          /\ annotations' = annotations
          /\ renderRequested' = TRUE

\* A variant of handleMouseDown below that, like the brush, does not block
\* without a class and places a black marker; BlockedClickPlacesNothing
\* tells the two apart.
handleMouseDownInBlack(p) ==
  /\ tool = "polygon"
  /\ lastEvent' = "handleMouseDown"
  /\ download' = NoDownload
  /\ IF selectedClass = NoClass
     THEN LET id == NewId(Referenced(objects, annotations,
                                     currentPolygonPoints,
                                     currentPolygonLines))
              circle == [id |-> id, type |-> "circle",
                         color |-> hexToRgba(Black, Decimal(8, 1)),
                         pts |-> <<p>>]
          IN /\ objects' = Append(objects, circle)
             /\ currentPolygonPoints' = Append(currentPolygonPoints, circle)
             /\ renderRequested' = TRUE
             /\ UNCHANGED <<annotations, currentPolygonLines>>
     ELSE placeVertex(p)
  /\ UNCHANGED <<background, historyRef, isRestoringState, restores, tool,
                 selectedClass, brushSize, imageUrl, loads>>

\* mouse:down in the polygon tool, at pointer position p.
handleMouseDown(p) ==
  /\ tool = "polygon"
  /\ lastEvent' = "handleMouseDown"
  /\ download' = NoDownload
  /\ IF selectedClass = NoClass
     THEN UNCHANGED <<objects, annotations, currentPolygonPoints,
                      currentPolygonLines, renderRequested>>
     ELSE placeVertex(p)
  /\ UNCHANGED <<background, historyRef, isRestoringState, restores, tool,
                 selectedClass, brushSize, imageUrl, loads>>

\* The animation frame of a requested render: the canvas renders and
\* after:render runs.
renderFrame ==
  /\ renderRequested
  /\ lastEvent' = "afterRender"
  /\ download' = NoDownload
  /\ renderRequested' = FALSE
  /\ historyRef' = afterRender(historyRef, objects, isRestoringState)
  /\ UNCHANGED <<objects, background, annotations, currentPolygonPoints,
                 currentPolygonLines, isRestoringState, restores, tool,
                 selectedClass, brushSize, imageUrl, loads>>

\* undo(), up to the call of util.enlivenObjects.
undo ==
  /\ lastEvent' = "undo"
  /\ download' = NoDownload
  /\ IF NothingToUndo(historyRef)
     THEN UNCHANGED <<objects, historyRef, isRestoringState, renderRequested,
                      restores>>
     ELSE LET popped == SubSeq(historyRef, 1, Len(historyRef) - 1)
          IN /\ objects' = <<>>                          \* clearCanvas()
             /\ renderRequested' = (renderRequested \/ objects # <<>>)
             /\ historyRef' = popped
             /\ IF popped = <<>>         \* !previousState?.objects
                THEN isRestoringState' = FALSE /\ restores' = restores
                ELSE /\ isRestoringState' = TRUE
                     /\ restores' = Append(restores, popped[Len(popped)])
  /\ UNCHANGED <<background, annotations, currentPolygonPoints,
                 currentPolygonLines, tool, selectedClass, brushSize,
                 imageUrl, loads>>

\* The continuation of undo(): the rebuilt objects are added, the canvas
\* renders at once, the flag is cleared.
restored(i) ==
  /\ i \in DOMAIN restores
  /\ lastEvent' = "restored"
  /\ download' = NoDownload
  /\ objects' = enlivenOnto(objects, restores[i].objects,
                            Referenced(objects, annotations,
                                       currentPolygonPoints,
                                       currentPolygonLines))
  /\ renderRequested' = FALSE
  /\ historyRef' = afterRender(historyRef, objects', isRestoringState)
  /\ isRestoringState' = FALSE
  /\ restores' = DropAt(restores, i)
  /\ UNCHANGED <<background, annotations, currentPolygonPoints,
                 currentPolygonLines, tool, selectedClass, brushSize,
                 imageUrl, loads>>

\* removeAnnotation(index), the click on the index-th button of the list
\* (index counts from 0).
removeAnnotation(index) ==
  /\ index \in 0..(Len(annotations) - 1)
  /\ lastEvent' = "removeAnnotation"
  /\ download' = NoDownload
  /\ annotations' = DropAt(annotations, index + 1)
  /\ IF index >= 0 /\ index < Len(objects)
     THEN /\ objects' = DropAt(objects, index + 1)
          /\ renderRequested' = FALSE                    \* renderAll()
          /\ historyRef' = afterRender(historyRef, objects', isRestoringState)
     ELSE UNCHANGED <<objects, renderRequested, historyRef>>
  /\ UNCHANGED <<background, currentPolygonPoints, currentPolygonLines,
                 isRestoringState, restores, tool, selectedClass, brushSize,
                 imageUrl, loads>>

\* A variant of exportToCOCO below without the removal of lines and
\* circles; ExportStripsTemporaries tells the two apart.
exportToCOCOKeepingTemporaries ==
  /\ lastEvent' = "exportToCOCO"
  /\ download' = [done |-> TRUE, valid |-> validateCOCO(cocoData(annotations))]
  /\ UNCHANGED <<objects, renderRequested, background, annotations,
                 historyRef, currentPolygonPoints, currentPolygonLines,
                 isRestoringState, restores, tool, selectedClass, brushSize,
                 imageUrl, loads>>

\* exportToCOCO(): lines and circles are removed from the canvas, the
\* document is built and handed to the browser as annotations.json.
exportToCOCO ==
  /\ lastEvent' = "exportToCOCO"
  /\ objects' = SelectSeq(objects, LAMBDA o : ~IsTemporary(o))
  /\ renderRequested' = (renderRequested \/ Temporaries(objects) # <<>>)
  /\ download' = [done |-> TRUE, valid |-> validateCOCO(cocoData(annotations))]
  /\ UNCHANGED <<background, annotations, historyRef, currentPolygonPoints,
                 currentPolygonLines, isRestoringState, restores, tool,
                 selectedClass, brushSize, imageUrl, loads>>

(***************************************************************************)
(* The specification.                                                      *)
(***************************************************************************)
MaxPoints == 3         \* markers in the marker stack

Within ==
  /\ Len(objects) <= MaxObjects
  /\ Len(annotations) <= MaxAnnotations
  /\ Len(historyRef) <= MaxHistory
  /\ Len(restores) <= MaxRestores
  /\ Len(loads) <= MaxLoads
  /\ Len(currentPolygonPoints) <= MaxPoints

\* One handler runs to completion: the event loop is single-threaded.
Handled(handler) ==
  /\ events < MaxEvents
  /\ handler
  /\ events' = events + 1
  /\ Within'
  /\ UNCHANGED <<args, result>>

Next ==
  \/ \E t \in Tools : Handled(handleSetTool(t)) /\ UNCHANGED scn
  \/ \E c \in ClassIds : Handled(onClassSelect(c)) /\ UNCHANGED scn
  \/ \E b \in BrushSizes : Handled(setBrushSize(b)) /\ UNCHANGED scn
  \/ \E u \in Images : Handled(handleFileUpload(u)) /\ UNCHANGED scn
  \/ \E i \in 1..MaxLoads : Handled(imageLoaded(i)) /\ UNCHANGED scn
  \/ \E i \in 1..MaxLoads : Handled(imageFailed(i)) /\ UNCHANGED scn
  \/ Handled(handlePathCreated) /\ UNCHANGED scn
  \/ \E p \in Pointers : Handled(handleMouseDown(p)) /\ UNCHANGED scn
  \/ Handled(renderFrame) /\ UNCHANGED scn
  \/ Handled(undo) /\ UNCHANGED scn
  \/ \E i \in 1..MaxRestores : Handled(restored(i)) /\ UNCHANGED scn
  \/ \E index \in 0..(MaxAnnotations - 1) :
        Handled(removeAnnotation(index)) /\ UNCHANGED scn
  \/ Handled(exportToCOCO) /\ UNCHANGED scn

Spec == Init /\ [][Next]_vars

(***************************************************************************)
(* Scripted runs. Each starts where the page has a class selected and a    *)
(* tool chosen (mount, onClassSelect, handleSetTool; no frame has passed   *)
(* yet) and lets only the handlers of its script run; scn records how far  *)
(* the script is.                                                          *)
(***************************************************************************)
Ready(c, t) ==
  /\ objects = <<>>
  /\ background = NoImage
  /\ annotations = <<>>
  /\ historyRef = saveCanvasState(<<>>, <<>>, FALSE)
  /\ currentPolygonPoints = <<>>
  /\ currentPolygonLines = <<>>
  /\ isRestoringState = FALSE
  /\ renderRequested = TRUE
  /\ restores = <<>>
  /\ tool = t
  /\ selectedClass = c
  /\ brushSize = DefaultBrushSize
  /\ imageUrl = NoImage
  /\ loads = <<>>
  /\ download = NoDownload
  /\ lastEvent = "handleSetTool"
  /\ events = 0

\* No polygon is under construction and nothing but the committed shapes
\* is on the canvas.
NoPolygonUnderConstruction ==
  /\ currentPolygonPoints = <<>>
  /\ currentPolygonLines = <<>>
  /\ Temporaries(objects) = <<>>

\* The canvas has been painted and no reconstruction is in flight.
Settled == ~renderRequested /\ restores = <<>>

\* Script 1: draw (strokes and closed polygons), then only undo.
InitUndoAll ==
  /\ \E c \in ClassIds, t \in Tools : Ready(c, t)
  /\ scn = [ScnIdle EXCEPT !.phase = "draw"]
  /\ NoCall

NextUndoAll ==
  \/ /\ scn.phase = "draw"
     /\ \/ \E t \in Tools : Handled(handleSetTool(t))
        \/ Handled(renderFrame)
     /\ UNCHANGED scn
  \/ /\ scn.phase = "draw"
     /\ \/ Handled(handlePathCreated)
        \/ \E p \in Pointers : Handled(handleMouseDown(p))
     /\ scn' = [scn EXCEPT !.commits = @ + Len(annotations') - Len(annotations)]
  \/ /\ scn.commits >= 1
     /\ scn.undos < scn.commits
     /\ NoPolygonUnderConstruction \/ scn.phase = "undo"
     /\ Settled
     /\ Handled(undo)
     /\ scn' = [scn EXCEPT !.phase = "undo", !.undos = @ + 1]
  \/ /\ scn.phase = "undo"
     /\ \/ \E i \in 1..MaxRestores : Handled(restored(i))
        \/ Handled(renderFrame)
     /\ UNCHANGED scn

SpecUndoAll == InitUndoAll /\ [][NextUndoAll]_vars

\* Script 2: strokes, then one stroke on a settled canvas, then render
\* passes (tool and class switches request them), then one undo.
InitUndoStroke ==
  /\ \E c \in ClassIds : Ready(c, "brush")
  /\ scn = [ScnIdle EXCEPT !.phase = "free"]
  /\ NoCall

NextUndoStroke ==
  \/ /\ scn.phase = "free"
     /\ \/ Handled(renderFrame)
        \/ Handled(handlePathCreated)
        \/ \E c \in ClassIds : Handled(onClassSelect(c))
     /\ UNCHANGED scn
  \/ /\ scn.phase = "free"
     /\ NoPolygonUnderConstruction
     /\ Settled
     /\ Handled(handlePathCreated)
     /\ scn' = [scn EXCEPT !.phase = "drawn", !.before = toJSON(objects)]
  \/ /\ scn.phase = "drawn"
     /\ \/ Handled(renderFrame)
        \/ \E t \in Tools : Handled(handleSetTool(t))
        \/ \E c \in ClassIds : Handled(onClassSelect(c))
     /\ UNCHANGED scn
  \/ /\ scn.phase = "drawn"
     /\ NoPolygonUnderConstruction
     /\ Settled
     /\ Handled(undo)
     /\ scn' = [scn EXCEPT !.phase = "undone"]
  \/ /\ scn.phase = "undone"
     /\ \E i \in 1..MaxRestores : Handled(restored(i))
     /\ UNCHANGED scn

SpecUndoStroke == InitUndoStroke /\ [][NextUndoStroke]_vars

\* Script 3: the polygon tool, render passes and undo. A click or an undo
\* comes only once a pending restore has completed.
InitPolygon ==
  /\ \E c \in ClassIds : Ready(c, "polygon")
  /\ scn = ScnIdle
  /\ NoCall

MaxPolygonEvents == 8  \* handlers run in the polygon script

HandledPolygon(handler) ==
  /\ events < MaxPolygonEvents
  /\ handler
  /\ events' = events + 1
  /\ Within'
  /\ UNCHANGED <<args, result>>

NextPolygon ==
  \/ /\ restores = <<>>
     /\ \E p \in Pointers : HandledPolygon(handleMouseDown(p))
     /\ UNCHANGED scn
  \/ HandledPolygon(renderFrame) /\ UNCHANGED scn
  \/ /\ restores = <<>>
     /\ HandledPolygon(undo)
     /\ UNCHANGED scn
  \/ \E i \in 1..MaxRestores : HandledPolygon(restored(i)) /\ UNCHANGED scn

SpecPolygon == InitPolygon /\ [][NextPolygon]_vars

(***************************************************************************)
(* Properties.                                                             *)
(***************************************************************************)
\* C1: whenever no restore is in flight, the annotation list is as long as
\* the list of committed (path/polygon) objects on the canvas and the i-th
\* annotation is bound to the i-th committed object.
AnnotationsMatchCanvas ==
  restores = <<>> =>
    LET committed == CommittedObjects(objects)
    IN /\ Len(annotations) = Len(committed)
       /\ \A i \in DOMAIN annotations : annotations[i].object = committed[i].id

\* C2: from an empty canvas, once N >= 1 strokes/polygons were committed and
\* undo() ran N times, each after the previous restore completed, the canvas
\* holds no committed object and the annotation list is empty.
UndoneAll ==
  (scn.phase = "undo" /\ scn.undos = scn.commits /\ restores = <<>>) =>
    (CommittedObjects(objects) = <<>> /\ annotations = <<>>)

\* C3: with no polygon under construction and no restore in flight, one
\* undo() after a committed stroke leaves, once its restore completed, the
\* canvas objects that were there just before the stroke, however many
\* render passes came in between.
UndoRemovesLastStroke ==
  (scn.phase = "undone" /\ restores = <<>>) => toJSON(objects) = scn.before

\* C4: in the polygon tool with a class selected, the click that lands
\* within the closure threshold of the first of at least three placed
\* vertices adds exactly one polygon object and exactly one annotation and
\* leaves no marker and no guide line on the canvas.
ClosureLeavesOnePolygon ==
  [][\A p \in Pointers :
       (/\ handleMouseDown(p)
        /\ selectedClass # NoClass
        /\ restores = <<>>
        /\ Len(currentPolygonPoints) >= 3
        /\ Near(p, currentPolygonPoints[1].pts[1]))
       => /\ Temporaries(objects') = <<>>
          /\ Len(CommittedObjects(objects')) = Len(CommittedObjects(objects)) + 1
          /\ objects'[Len(objects')].type = "polygon"
          /\ Len(annotations') = Len(annotations) + 1
          /\ annotations'[Len(annotations')].object = objects'[Len(objects')].id
    ]_vars

\* C5: switching the tool while polygon vertices are placed and not closed
\* leaves no marker and no guide line on the canvas, drops the polygon in
\* progress, and changes neither the annotation list nor the committed
\* objects.
ToolSwitchCleansUp ==
  [][(lastEvent' = "handleSetTool" /\ tool' # tool
        /\ currentPolygonPoints # <<>>)
      => /\ Temporaries(objects') = <<>>
         /\ currentPolygonPoints' = <<>>
         /\ currentPolygonLines' = <<>>
         /\ annotations' = annotations
         /\ CommittedObjects(objects') = CommittedObjects(objects)
    ]_vars

\* The tool was just switched to the brush, nothing was ever committed, the
\* last painted canvas showed two markers and their guide line, and the
\* canvas and both stacks are clean.
ToolSwitchedMidPolygon ==
  /\ lastEvent = "handleSetTool"
  /\ tool = "brush"
  /\ annotations = <<>>
  /\ Len(Temporaries(historyRef[Len(historyRef)].objects)) = 3
  /\ objects = <<>>
  /\ currentPolygonPoints = <<>>
  /\ currentPolygonLines = <<>>

\* C6: undo() called on a settled canvas that shows the markers and guide
\* lines of the stacks removes exactly the last marker and the last guide
\* line, keeps the committed objects and the annotation list, and leaves
\* the snapshot log alone.
UndoPopsMarkerAndGuide ==
  [][(/\ lastEvent' = "undo"
      /\ Settled
      /\ currentPolygonPoints # <<>>
      /\ Ids(currentPolygonPoints) \cup Ids(currentPolygonLines)
            \subseteq Ids(objects))
      => LET marker == currentPolygonPoints[Len(currentPolygonPoints)].id
             guide == IF currentPolygonLines = <<>> THEN {}
                      ELSE {currentPolygonLines[Len(currentPolygonLines)].id}
         IN /\ objects' = Without(objects, {marker} \cup guide)
            /\ annotations' = annotations
            /\ historyRef' = historyRef
    ]_vars

\* C7: undo() with at most one snapshot in the log changes nothing: canvas
\* objects, annotation list, snapshot log, restoring flag, pending restores
\* and the render request all stay.
UndoWithOneSnapshotIsNoOp ==
  [][(lastEvent' = "undo" /\ Len(historyRef) <= 1)
      => UNCHANGED <<objects, annotations, historyRef, isRestoringState,
                     restores, renderRequested>>
    ]_vars

\* undo() has just returned with one snapshot in the log, a stroke on the
\* canvas and no restore started.
UndoneWithOneSnapshot ==
  /\ lastEvent = "undo"
  /\ Len(historyRef) = 1
  /\ Len(CommittedObjects(objects)) >= 1
  /\ ~isRestoringState
  /\ restores = <<>>

\* C8: undo() on a settled, empty canvas is a no-op even with more than one
\* snapshot in the log: log, canvas and annotation list stay.
UndoOnEmptyCanvasIsNoOp ==
  [][(/\ lastEvent' = "undo"
      /\ Settled
      /\ objects = <<>>
      /\ Len(historyRef) > 1)
      => UNCHANGED <<historyRef, objects, annotations>>
    ]_vars

\* C9: removeAnnotation(index), when the object the annotation is bound to
\* is on the canvas and no restore is in flight, removes exactly that
\* annotation from the list and exactly that object from the canvas, and
\* keeps everything else in order.
RemoveAnnotationRemovesItsObject ==
  [][\A index \in 0..(MaxAnnotations - 1) :
       (/\ removeAnnotation(index)
        /\ restores = <<>>
        /\ annotations[index + 1].object \in Ids(objects))
       => /\ annotations' = DropAt(annotations, index + 1)
          /\ objects' = Without(objects, {annotations[index + 1].object})
    ]_vars

\* C10: exportToCOCO hands a document to the browser only if validateCOCO
\* accepts it.
DownloadOnlyIfValid == download.done => download.valid

\* C13: once a new image has been loaded and installed, the canvas holds no
\* object and the annotation list is empty.
ImageLoadClearsAll ==
  lastEvent = "loadImage" => (objects = <<>> /\ annotations = <<>>)

\* C19: a render pass appends a snapshot only if the object count differs
\* from the tail's, so no two adjacent snapshots of the log have the same
\* object count.
AdjacentSnapshotsDiffer ==
  \A i \in 1..(Len(historyRef) - 1) :
    Len(historyRef[i].objects) # Len(historyRef[i + 1].objects)

(***************************************************************************)
(* Script 4: strokes, render passes and undo() calls that may come while   *)
(* the restore of an earlier undo() is still pending (undo() does not wait *)
(* for the promise of util.enlivenObjects).                                *)
(***************************************************************************)
WithinOverlapping ==
  /\ Len(objects) <= MaxObjects
  /\ Len(annotations) <= MaxAnnotations
  /\ Len(historyRef) <= MaxHistory
  /\ Len(restores) <= MaxRestores + 1
  /\ Len(loads) <= MaxLoads
  /\ Len(currentPolygonPoints) <= MaxPoints

HandledOverlapping(handler) ==
  /\ events < MaxEvents
  /\ handler
  /\ events' = events + 1
  /\ WithinOverlapping'
  /\ UNCHANGED <<args, result>>

InitOverlap ==
  /\ \E c \in ClassIds : Ready(c, "brush")
  /\ scn = ScnIdle
  /\ NoCall

NextOverlap ==
  \/ HandledOverlapping(handlePathCreated) /\ UNCHANGED scn
  \/ HandledOverlapping(renderFrame) /\ UNCHANGED scn
  \/ HandledOverlapping(undo) /\ UNCHANGED scn
  \/ \E i \in 1..(MaxRestores + 1) :
        HandledOverlapping(restored(i)) /\ UNCHANGED scn

SpecOverlap == InitOverlap /\ [][NextOverlap]_vars

\* C15: while a restore is in flight a further undo() is not accepted: it
\* neither pops the snapshot log nor changes the canvas nor starts another
\* restore.
UndoRefusedWhileRestoring ==
  [][(lastEvent' = "undo" /\ restores # <<>>)
      => UNCHANGED <<historyRef, objects, restores>>
    ]_vars

\* C20: from the start of a restore until its objects are re-added, no
\* snapshot is appended to the log.
NoSnapshotWhileRestoring ==
  [][restores # <<>> => Len(historyRef') <= Len(historyRef)]_vars

(***************************************************************************)
(* Script 5: a long run that fills the snapshot log. Strokes and undo()    *)
(* come while the log is short or when it is full; class switches request  *)
(* the render passes, each followed by its frame.                          *)
(***************************************************************************)
MaxLogEvents == 102    \* handler calls of the long run

Logged(handler) ==
  /\ events < MaxLogEvents
  /\ handler
  /\ events' = events + 1
  /\ Len(objects') <= MaxObjects
  /\ Len(annotations') <= MaxAnnotations
  /\ Len(restores') <= MaxRestores
  /\ UNCHANGED <<args, result>>

LogShortOrFull ==
  Len(historyRef) < MaxHistory \/ Len(historyRef) >= HistoryCap

InitLog ==
  /\ \E c \in ClassIds : Ready(c, "brush")
  /\ scn = ScnIdle
  /\ NoCall

NextLog ==
  \/ /\ LogShortOrFull
     /\ Logged(handlePathCreated)
     /\ UNCHANGED scn
  \/ /\ ~renderRequested
     /\ restores = <<>>
     /\ \E c \in ClassIds : Logged(onClassSelect(c))
     /\ UNCHANGED scn
  \/ Logged(renderFrame) /\ UNCHANGED scn
  \/ /\ LogShortOrFull
     /\ Settled
     /\ Logged(undo)
     /\ UNCHANGED scn
  \/ \E i \in 1..MaxRestores : Logged(restored(i)) /\ UNCHANGED scn

SpecLog == InitLog /\ [][NextLog]_vars

\* C14 as stated: the log never holds more than 500 snapshots, and a render
\* pass outside a restore appends the canvas, dropping the oldest snapshots
\* only when the log would exceed 500 and keeping the others in order.
LogKeepsNewestFiveHundred ==
  [][/\ Len(historyRef') <= 500
     /\ (lastEvent' = "afterRender" /\ ~isRestoringState)
        => LET n == Len(historyRef')
               dropped == Len(historyRef) + 1 - n
           IN /\ n = IF Len(historyRef) + 1 > 500 THEN 500
                     ELSE Len(historyRef) + 1
              /\ historyRef'[n] = [objects |-> toJSON(objects)]
              /\ \A i \in 1..(n - 1) : historyRef'[i] = historyRef[i + dropped]
    ]_vars

\* C14, amended: the same with the cap of the code, HistoryCap.
LogKeepsNewest ==
  [][/\ Len(historyRef') <= HistoryCap
     /\ (lastEvent' = "afterRender" /\ ~isRestoringState)
        => LET n == Len(historyRef')
               dropped == Len(historyRef) + 1 - n
           IN /\ n = IF Len(historyRef) + 1 > HistoryCap THEN HistoryCap
                     ELSE Len(historyRef) + 1
              /\ historyRef'[n] = [objects |-> toJSON(objects)]
              /\ \A i \in 1..(n - 1) : historyRef'[i] = historyRef[i + dropped]
    ]_vars

\* A render pass has just saved, the log is full, and the snapshot of the
\* empty canvas taken at mount is no longer its first entry.
LogFullOldestDropped ==
  /\ lastEvent = "afterRender"
  /\ Len(historyRef) = HistoryCap
  /\ historyRef[1].objects # <<>>

(***************************************************************************)
(* The colour utilities called on their own: hexToRgba, rgbaToHex and      *)
(* getClassFromColor applied to drawn arguments.                           *)
(***************************************************************************)
HexColors ==
  { <<"#", "F", "F", "0", "0", "0", "0">>,
    <<"#", "a", "1", "b", "2", "c", "3">>,
    <<"A", "1", "B", "2", "C", "3">>,
    <<"#", "8", "7", "C", "E", "E", "B">> }

\* 0, 1, the 0.8 and 0.35 of the canvas, 0.000001 and 0.0000001
Alphas ==
  { Decimal(0, 0), Decimal(1, 0), Decimal(8, 1), Decimal(35, 2),
    Decimal(1, 6), Decimal(1, 7) }

\* Catalogs with pairwise distinct colours: the initial one, and two with a
\* class added through the colour input (lower case) or in upper case.
Catalogs ==
  { classes,
    << classes[1],
       [id |-> 8, name |-> "Sky",
        color |-> <<"#", "a", "1", "b", "2", "c", "3">>] >>,
    << [id |-> 8, name |-> "Sky",
        color |-> <<"#", "A", "1", "B", "2", "C", "3">>] >> }

ProgramIdle ==
  UNCHANGED <<objects, background, annotations, historyRef,
              currentPolygonPoints, currentPolygonLines, isRestoringState,
              renderRequested, restores, tool, selectedClass, brushSize,
              imageUrl, loads, download, lastEvent, events, scn>>

InitColors ==
  /\ Mounted
  /\ scn = ScnIdle
  /\ result = NoResult
  /\ \E hex \in HexColors, alpha \in Alphas, catalog \in Catalogs :
       \E k \in DOMAIN catalog :
         args = [hex |-> hex, alpha |-> alpha, catalog |-> catalog, k |-> k]

\* rgbaToHex(hexToRgba(hex, alpha))
callRgbaToHex ==
  /\ result.step = "none"
  /\ result' = [step |-> "rgbaToHex",
                out |-> rgbaToHex(hexToRgba(args.hex, args.alpha))]
  /\ UNCHANGED args
  /\ ProgramIdle

\* getClassFromColor(catalog, hexToRgba(catalog[k].color, alpha))
callGetClassFromColor ==
  /\ result.step = "none"
  /\ result' = [step |-> "getClassFromColor",
                out |-> getClassFromColor(
                          args.catalog,
                          hexToRgba(args.catalog[args.k].color, args.alpha))]
  /\ UNCHANGED args
  /\ ProgramIdle

NextColors ==
  \/ callRgbaToHex
  \/ callGetClassFromColor

SpecColors == InitColors /\ [][NextColors]_vars

\* C16: for every valid 6-digit hex colour c and every alpha a in [0,1],
\* rgbaToHex(hexToRgba(c, a)) is c in upper case followed by the byte
\* round(a * 255) as two hex digits.
HexRoundTrip ==
  result.step = "rgbaToHex" =>
    result.out = Returned(toUpperCase(
                   <<"#">> \o StripHash(args.hex)
                     \o toHexByte(alphaByte(args.alpha))))

\* C17: for every class K of a catalog with pairwise distinct colours and
\* every alpha, getClassFromColor(catalog, hexToRgba(K.color, alpha)) is K.
ClassRoundTrip ==
  result.step = "getClassFromColor" => result.out = args.catalog[args.k]

(***************************************************************************)
(* The dataset builder of COCOUtils.ts.                                    *)
(***************************************************************************)
\* Math.abs
Abs(n) == IF n < 0 THEN -n ELSE n

\* n / 2 for an integer n >= 0
Half(n) == IF n % 2 = 0 THEN Decimal(n \div 2, 0) ELSE Decimal(5 * n, 1)

\* v ?? d
Nullish(v, d) == IF IsNumber(v) THEN v ELSE d

\* A variant of Lookup below that takes the class id itself as the category
\* id; OneEntryPerAnnotation tells the two apart.
LookupClassId(categoryMap, id) == Num(id)

\* categoryMap[id]
Lookup(categoryMap, id) ==
  IF id \in DOMAIN categoryMap THEN Num(categoryMap[id]) ELSE Undefined

\* A variant of shoelaceSum below that reads arr[i + 1] without the modulus,
\* so that the last vertex has no successor; ShoelaceArea tells the two
\* apart.
RECURSIVE shoelaceSumWithoutWraparound(_, _)
shoelaceSumWithoutWraparound(points, i) ==
  IF i > Len(points) THEN 0
  ELSE (IF i = Len(points) THEN 0
        ELSE points[i][1] * points[i + 1][2] - points[i + 1][1] * points[i][2])
       + shoelaceSumWithoutWraparound(points, i + 1)

\* points.reduce((sum, point, i, arr) => sum + (point.x * next.y - next.x *
\* point.y), 0) with next = arr[(i + 1) % arr.length], from the i-th point on
RECURSIVE shoelaceSum(_, _)
shoelaceSum(points, i) ==
  IF i > Len(points) THEN 0
  ELSE LET next == points[(i % Len(points)) + 1]
       IN (points[i][1] * next[2] - next[1] * points[i][2])
            + shoelaceSum(points, i + 1)

\* Math.abs(sum / 2)
shoelaceArea(points) == Half(Abs(shoelaceSum(points, 1)))

\* points.flatMap(pt => [pt.x, pt.y])
RECURSIVE flatten(_)
flatten(points) ==
  IF points = <<>> THEN <<>> ELSE Head(points) \o flatten(Tail(points))

\* left, top, width and height fabric reports for the vertices of an object
BoundingRect(points) ==
  IF points = <<>> THEN <<0, 0, 0, 0>>
  ELSE LET xs == {points[i][1] : i \in DOMAIN points}
           ys == {points[i][2] : i \in DOMAIN points}
           minx == CHOOSE x \in xs : \A y \in xs : x <= y
           maxx == CHOOSE x \in xs : \A y \in xs : x >= y
           miny == CHOOSE x \in ys : \A y \in ys : x <= y
           maxy == CHOOSE x \in ys : \A y \in ys : x >= y
       IN <<minx, miny, maxx - minx, maxy - miny>>

buildPolygonAnnotation(polygon, catId, imageId, id) ==
  [id |-> id,
   image_id |-> Nullish(imageId, Null),
   category_id |-> Nullish(catId, Null),
   segmentation |-> <<flatten(polygon.points)>>,
   area |-> shoelaceArea(polygon.points),
   bbox |-> BoundingRect(polygon.points),
   iscrowd |-> 0]

\* The points buildPathAnnotation collects: the end point of every M, L, C
\* and Q command, and the first point again for Z.
RECURSIVE pathPoints(_, _)
pathPoints(pathData, points) ==
  IF pathData = <<>> THEN points
  ELSE LET command == Head(pathData)
           n == Len(command.args)
       IN pathPoints(
            Tail(pathData),
            IF command.cmd \in {"M", "L"}
            THEN Append(points, <<command.args[1], command.args[2]>>)
            ELSE IF command.cmd \in {"C", "Q"}
            THEN Append(points, <<command.args[n - 1], command.args[n]>>)
            ELSE IF command.cmd = "Z" /\ points # <<>>
            THEN Append(points, points[1])
            ELSE points)

buildPathAnnotation(pathObj, catId, imageId, id) ==
  LET points == pathPoints(pathObj.path, <<>>)
  IN [id |-> id,
      image_id |-> Nullish(imageId, Null),
      category_id |-> Nullish(catId, Null),
      segmentation |-> <<flatten(points)>>,
      area |-> shoelaceArea(points),
      bbox |-> BoundingRect(points),
      iscrowd |-> 0]

\* A variant of buildAnnotationsData below that passes catId on without the
\* "?? 0"; BuiltDocumentIsValid tells the two apart.
buildAnnotationsDataNullCategory(anns, categoryMap, imageId, ids) ==
  SelectSeq(
    [i \in DOMAIN anns |->
       LET catId == IF anns[i].class # Null
                    THEN Lookup(categoryMap, anns[i].class.id)
                    ELSE Null
       IN IF anns[i].type = "polygon"
          THEN buildPolygonAnnotation(anns[i].object, catId,
                                      Nullish(imageId, Num(0)), ids[i])
          ELSE IF anns[i].type = "path"
          THEN buildPathAnnotation(anns[i].object, catId,
                                   Nullish(imageId, Num(0)), ids[i])
          ELSE Null],
    LAMBDA anno : anno # Null)

\* buildAnnotationsData; ids are the values generateRandomId() returns.
buildAnnotationsData(anns, categoryMap, imageId, ids) ==
  SelectSeq(
    [i \in DOMAIN anns |->
       IF anns[i].type = "polygon"
       THEN LET catId == IF anns[i].class # Null
                         THEN Nullish(Lookup(categoryMap, anns[i].class.id),
                                      Null)
                         ELSE Null
            IN buildPolygonAnnotation(anns[i].object, Nullish(catId, Num(0)),
                                      Nullish(imageId, Num(0)), ids[i])
       ELSE IF anns[i].type = "path"
       THEN LET catId == IF anns[i].class # Null
                         THEN Lookup(categoryMap, anns[i].class.id)
                         ELSE Num(0)
            IN buildPathAnnotation(anns[i].object, Nullish(catId, Num(0)),
                                   Nullish(imageId, Num(0)), ids[i])
       ELSE Null],
    LAMBDA anno : anno # Null)

\* buildCOCOData; licenseID is the value generateRandomId() returns.
buildCOCOData(canvas, built, catalog, categoryMap, imageId, licenseID) ==
  [info |-> [url |-> "https://your-url.com"],
   licenses |-> <<[url |-> "https://creativecommons.org/licenses/by/4.0/",
                   id |-> licenseID]>>,
   images |-> <<[license |-> licenseID, file_name |-> "image.jpg",
                 coco_url |-> "https://example.com/coco-url",
                 height |-> canvas.height, width |-> canvas.width,
                 flickr_url |-> "https://www.flickr.com/photos/tags/flicker/",
                 id |-> imageId]>>,
   annotations |-> built,
   categories |-> [i \in DOMAIN catalog |->
                     [supercategory |-> "none",
                      id |-> Lookup(categoryMap, catalog[i].id),
                      name |-> catalog[i].name]]]

\* createCategoryMap; ids are the values generateRandomId() returns.
createCategoryMap(catalog, ids) ==
  [id \in {catalog[i].id : i \in DOMAIN catalog} |->
     ids[CHOOSE i \in DOMAIN catalog :
           /\ catalog[i].id = id
           /\ \A j \in DOMAIN catalog : catalog[j].id = id => j <= i]]

(***************************************************************************)
(* The dataset builder called on its own: Init draws an annotation list, a *)
(* catalog, the random ids, the image binding and the canvas size; the     *)
(* actions build the document.                                             *)
(***************************************************************************)
UnitSquare == << <<0, 0>>, <<1, 0>>, <<1, 1>>, <<0, 1>> >>

\* Empty, one-point and two-point lists, the unit square in both
\* orientations and away from the origin, and a triangle of area 4.5.
PointLists ==
  { <<>>,
    << <<3, 4>> >>,
    << <<1, 2>>, <<3, 4>> >>,
    UnitSquare,
    << <<0, 1>>, <<1, 1>>, <<1, 0>>, <<0, 0>> >>,
    << <<1, 1>>, <<2, 1>>, <<2, 2>>, <<1, 2>> >>,
    << <<2, 1>>, <<5, 1>>, <<2, 4>> >> }

\* The path of a stroke through the given points: M, then L.
pathThrough(points) ==
  [i \in DOMAIN points |->
     [cmd |-> IF i = 1 THEN "M" ELSE "L", args |-> points[i]]]

\* A pencil stroke (M, Q, L), and a closed path (M, L, L, Z).
PencilStroke ==
  << [cmd |-> "M", args |-> <<0, 0>>],
     [cmd |-> "Q", args |-> <<0, 0, 2, 0>>],
     [cmd |-> "Q", args |-> <<2, 0, 2, 3>>],
     [cmd |-> "L", args |-> <<0, 3>>] >>

ClosedPath ==
  << [cmd |-> "M", args |-> <<1, 1>>],
     [cmd |-> "L", args |-> <<4, 1>>],
     [cmd |-> "L", args |-> <<4, 3>>],
     [cmd |-> "Z", args |-> <<>>] >>

Shapes ==
  {[type |-> "polygon", object |-> [points |-> pts]] : pts \in PointLists}
    \cup {[type |-> "path", object |-> [path |-> pathThrough(pts)]] :
            pts \in PointLists}
    \cup {[type |-> "path", object |-> [path |-> PencilStroke]],
          [type |-> "path", object |-> [path |-> ClosedPath]]}

\* No shape, every single shape, and three mixed polygons and strokes.
ShapeLists ==
  {<<>>} \cup {<<shape>> : shape \in Shapes}
    \cup { << [type |-> "polygon", object |-> [points |-> UnitSquare]],
              [type |-> "path", object |-> [path |-> PencilStroke]],
              [type |-> "polygon",
               object |-> [points |-> << <<2, 1>>, <<5, 1>>, <<2, 4>> >>]] >> }

\* Values of generateRandomId(): parseInt of eight hex digits. Two calls may
\* return the same value.
RandomIds == {<<7, 305419896, 2147483647>>, <<7, 7, 7>>}

\* The image binding: an image id, or none.
ImageIds == {Num(1), Num(305419896), Null}

\* The drawing surface, and the pixel size of the bound image.
Surfaces ==
  { [canvas |-> DefaultCanvas, image |-> [width |-> 800, height |-> 600]],
    [canvas |-> [width |-> 1024, height |-> 768],
     image |-> [width |-> 800, height |-> 600]],
    [canvas |-> DefaultCanvas, image |-> [width |-> 1600, height |-> 1200]] }

InitBuilder ==
  /\ Mounted
  /\ scn = ScnIdle
  /\ result = NoResult
  /\ \E catalog \in Catalogs, shapes \in ShapeLists, ids \in RandomIds,
        categoryIds \in RandomIds, imageId \in ImageIds,
        surface \in Surfaces :
       \E of \in [DOMAIN shapes -> {0} \cup DOMAIN catalog] :
         args = [annotations |->
                   [i \in DOMAIN shapes |->
                      [type |-> shapes[i].type,
                       class |-> IF of[i] = 0 THEN Null ELSE catalog[of[i]],
                       object |-> shapes[i].object]],
                 catalog |-> catalog,
                 ids |-> ids,
                 categoryMap |-> createCategoryMap(catalog, categoryIds),
                 licenseID |-> ids[1],
                 imageId |-> imageId,
                 canvas |-> surface.canvas,
                 image |-> surface.image]

\* buildCOCOData(canvas, buildAnnotationsData(annotations, categoryMap,
\* imageId), classes, categoryMap, imageId)
callBuildCOCOData ==
  /\ result.step = "none"
  /\ result' = [step |-> "buildCOCOData",
                doc |-> buildCOCOData(
                          args.canvas,
                          buildAnnotationsData(args.annotations,
                                               args.categoryMap,
                                               args.imageId, args.ids),
                          args.catalog, args.categoryMap, args.imageId,
                          args.licenseID)]
  /\ UNCHANGED args
  /\ ProgramIdle

\* The images exportToCOCO writes for the same canvas
callExportedImages ==
  /\ result.step = "none"
  /\ result' = [step |-> "exportToCOCO",
                doc |-> [images |-> exportedImages(args.canvas)]]
  /\ UNCHANGED args
  /\ ProgramIdle

NextBuilder ==
  \/ callBuildCOCOData
  \/ callExportedImages

SpecBuilder == InitBuilder /\ [][NextBuilder]_vars

\* C11: for any class catalog and any annotation list of polygons and
\* strokes, built against a bound image, the document of buildAnnotationsData
\* followed by buildCOCOData passes validateCOCO.
BuiltDocumentIsValid ==
  (result.step = "buildCOCOData" /\ IsNumber(args.imageId)) =>
    validateCOCO(result.doc)

\* Three mixed annotations, one of them without a class, over a catalog of
\* two classes and a bound image, built into a valid document.
BuiltThreeMixed ==
  /\ result.step = "buildCOCOData"
  /\ IsNumber(args.imageId)
  /\ Len(args.catalog) = 2
  /\ Len(args.annotations) = 3
  /\ \E i \in DOMAIN args.annotations : args.annotations[i].class = Null
  /\ Len(result.doc.annotations) = 3
  /\ validateCOCO(result.doc)

\* C12: in the exported document images[] has exactly one entry and its
\* width and height are the pixel width and height of the bound image,
\* whatever the size of the drawing surface.
ImagesEntryHasImageSize ==
  result.step \in {"buildCOCOData", "exportToCOCO"} =>
    /\ Len(result.doc.images) = 1
    /\ result.doc.images[1].width = args.image.width
    /\ result.doc.images[1].height = args.image.height

\* The vertex list the area of an annotation is computed from
vertices(annotation) ==
  IF annotation.type = "polygon" THEN annotation.object.points
  ELSE pathPoints(annotation.object.path, <<>>)

\* The sum over i of x_i * y_(i+1) - x_(i+1) * y_i, the successor of the
\* last vertex being the first
RECURSIVE SignedTwiceArea(_, _)
SignedTwiceArea(points, n) ==
  IF n = 0 THEN 0
  ELSE LET j == IF n = Len(points) THEN 1 ELSE n + 1
       IN SignedTwiceArea(points, n - 1)
            + points[n][1] * points[j][2] - points[j][1] * points[n][2]

\* C18: the area of an annotation is |sum of x_i*y_(i+1) - x_(i+1)*y_i| / 2
\* with wraparound: never negative, 1 for the unit square, 0 for an empty,
\* one-point or two-point list.
ShoelaceArea ==
  result.step = "buildCOCOData" =>
    \A i \in DOMAIN result.doc.annotations :
      LET points == vertices(args.annotations[i])
          area == result.doc.annotations[i].area
          twice == SignedTwiceArea(points, Len(points))
      IN /\ area = Half(IF twice < 0 THEN -twice ELSE twice)
         /\ area.m >= 0
         /\ points = UnitSquare => area = Decimal(1, 0)
         /\ Len(points) <= 2 => area = Decimal(0, 0)

\* The unit square built as a polygon, with area 1.
UnitSquareBuilt ==
  /\ result.step = "buildCOCOData"
  /\ \E i \in DOMAIN result.doc.annotations :
       /\ args.annotations[i].type = "polygon"
       /\ args.annotations[i].object.points = UnitSquare
       /\ result.doc.annotations[i].area = Decimal(1, 0)

(***************************************************************************)
(* Script 6: vertices are placed in the polygon tool; on a settled canvas  *)
(* that shows them the tool or the class is switched; then render passes   *)
(* and undo() follow. scn.before is the snapshot log at the switch.        *)
(***************************************************************************)
InitSwitch ==
  /\ \E c \in ClassIds : Ready(c, "polygon")
  /\ scn = [ScnIdle EXCEPT !.phase = "build"]
  /\ NoCall

NextSwitch ==
  \/ /\ scn.phase = "build"
     /\ \E p \in Pointers : Handled(handleMouseDown(p))
     /\ UNCHANGED scn
  \/ /\ scn.phase = "build"
     /\ Handled(renderFrame)
     /\ UNCHANGED scn
  \/ /\ scn.phase = "build"
     /\ Settled
     /\ currentPolygonPoints # <<>>
     /\ Handled(handleSetTool("brush"))
     /\ scn' = [scn EXCEPT !.phase = "switched", !.before = historyRef]
  \/ /\ scn.phase = "build"
     /\ Settled
     /\ currentPolygonPoints # <<>>
     /\ \E c \in ClassIds \ {selectedClass} : Handled(onClassSelect(c))
     /\ scn' = [scn EXCEPT !.phase = "switched", !.before = historyRef]
  \/ /\ scn.phase = "switched"
     /\ Handled(renderFrame)
     /\ UNCHANGED scn
  \/ /\ scn.phase = "switched"
     /\ Settled
     /\ Handled(undo)
     /\ UNCHANGED scn
  \/ /\ scn.phase = "switched"
     /\ \E i \in 1..MaxRestores : Handled(restored(i))
     /\ UNCHANGED scn

SpecSwitch == InitSwitch /\ [][NextSwitch]_vars

\* C21: discarding the markers and guide lines of a polygon in progress on
\* a tool or class switch appends no snapshot: the log after the switch is
\* the log before it.
SwitchAppendsNoSnapshot == scn.phase = "switched" => historyRef = scn.before

InitEngine ==
  /\ \E c \in ClassIds \cup {NoClass}, t \in Tools : Ready(c, t)
  /\ scn = ScnIdle
  /\ NoCall

\* Three markers and their two guide lines fit on the canvas, and the
\* fourth marker and third line of a click that may close.
WithinEngine ==
  /\ Len(objects) <= MaxObjects + 2
  /\ Len(annotations) <= MaxAnnotations
  /\ Len(historyRef) <= MaxHistory
  /\ Len(currentPolygonPoints) <= MaxPoints

MaxEngineEvents == 6   \* handlers run on the canvas on its own

HandledEngine(handler) ==
  /\ events < MaxEngineEvents
  /\ handler
  /\ events' = events + 1
  /\ WithinEngine'
  /\ UNCHANGED <<args, result>>

NextEngine ==
  \/ HandledEngine(handlePathCreated) /\ UNCHANGED scn
  \/ \E p \in Pointers : HandledEngine(handleMouseDown(p)) /\ UNCHANGED scn
  \/ HandledEngine(renderFrame) /\ UNCHANGED scn

SpecEngine == InitEngine /\ [][NextEngine]_vars

BlockedClickPlacesNothing ==
  [][(lastEvent' = "handleMouseDown" /\ selectedClass = NoClass)
      => UNCHANGED <<objects, currentPolygonPoints, currentPolygonLines,
                     annotations>>
    ]_vars

\* A pointer-down has just been handled in the polygon tool with no class
\* selected, after the canvas was painted.
ClickedWithoutClass ==
  /\ lastEvent = "handleMouseDown"
  /\ tool = "polygon"
  /\ selectedClass = NoClass
  /\ Len(historyRef) = 2
  /\ objects = <<>>

Markers(objs) == SelectSeq(objs, LAMBDA o : o.type = "circle")

Guides(objs) == SelectSeq(objs, LAMBDA o : o.type = "line")

\* C26: while a polygon is built, each accepted non-closing pointer-down
\* adds exactly one marker and, from the second vertex on, exactly one guide
\* line from the previous vertex to it; so with k >= 1 markers on the canvas
\* there are exactly k - 1 guide lines.
OneGuidePerLaterVertex ==
  Markers(objects) # <<>> =>
    Len(Guides(objects)) = Len(Markers(objects)) - 1

\* C27: the closure check applies only to pointer-downs made after three
\* vertices are placed: each of the first three clicks becomes a vertex even
\* within the threshold of the first vertex, so every committed polygon has
\* at least 3 vertices.
ClosureOnlyAfterThreeVertices ==
  [][/\ (/\ lastEvent' = "handleMouseDown"
         /\ selectedClass # NoClass
         /\ Len(currentPolygonPoints) < 3)
          => Len(currentPolygonPoints') = Len(currentPolygonPoints) + 1
     /\ \A i \in DOMAIN objects' :
          objects'[i].type = "polygon" => Len(objects'[i].pts) >= 3
    ]_vars

\* C28: when a click closes the polygon, the closing click is not a vertex:
\* the points of the committed polygon are, in order, the coordinates of
\* the vertices placed before it.
ClosingClickIsNoVertex ==
  [][(lastEvent' = "handleMouseDown"
        /\ Len(annotations') = Len(annotations) + 1)
      => LET polygon == objects'[Len(objects')]
         IN /\ polygon.type = "polygon"
            /\ polygon.pts = [i \in DOMAIN currentPolygonPoints |->
                                currentPolygonPoints[i].pts[1]]
    ]_vars

\* A click has just closed a polygon of three vertices whose first vertex
\* is (3, 4).
ClosedAfterThreeVertices ==
  /\ lastEvent = "handleMouseDown"
  /\ currentPolygonPoints = <<>>
  /\ objects # <<>>
  /\ objects[Len(objects)].type = "polygon"
  /\ Len(objects[Len(objects)].pts) = 3
  /\ objects[Len(objects)].pts[1] = <<3, 4>>

\* C29: after exportToCOCO has run, no marker (circle) and no guide line
\* (line) remains on the canvas, and none contributes an entry to the
\* exported annotations: each entry comes from an annotation of a polygon or
\* a stroke.
ExportStripsTemporaries ==
  [][lastEvent' = "exportToCOCO" =>
       /\ Temporaries(objects') = <<>>
       /\ download'.done
       /\ Len(cocoData(annotations).annotations) = Len(annotations)
       /\ \A i \in DOMAIN annotations :
            /\ annotations[i].type \in {"polygon", "path"}
            /\ annotations[i].object \notin Ids(Temporaries(objects))
    ]_vars

\* exportToCOCO has just run while a polygon was in progress and a stroke
\* was annotated: the marker stack still holds the markers, the canvas none.
ExportedMidPolygon ==
  /\ lastEvent = "exportToCOCO"
  /\ currentPolygonPoints # <<>>
  /\ annotations # <<>>
  /\ CommittedObjects(objects) # <<>>
  /\ Temporaries(objects) = <<>>

\* C30: the builder emits exactly one annotation per entry of the annotation
\* list, in list order, each with iscrowd = 0 and category_id =
\* categoryMap[annotation.class.id] when the annotation has a class, and the
\* sentinel 0 when it has none.
OneEntryPerAnnotation ==
  result.step = "buildCOCOData" =>
    /\ Len(result.doc.annotations) = Len(args.annotations)
    /\ \A i \in DOMAIN args.annotations :
         LET annotation == args.annotations[i]
             entry == result.doc.annotations[i]
         IN /\ entry.id = args.ids[i]
            /\ entry.segmentation = <<flatten(vertices(annotation))>>
            /\ entry.iscrowd = 0
            /\ entry.category_id =
                 (IF annotation.class = Null THEN Num(0)
                  ELSE Num(args.categoryMap[annotation.class.id]))

\* Three annotations were built, the first with a class and a category id
\* from the map, another without a class and with the sentinel.
BuiltWithAndWithoutClass ==
  /\ result.step = "buildCOCOData"
  /\ Len(result.doc.annotations) = 3
  /\ args.annotations[1].class # Null
  /\ result.doc.annotations[1].category_id = Num(305419896)
  /\ \E i \in DOMAIN args.annotations :
       /\ args.annotations[i].class = Null
       /\ result.doc.annotations[i].category_id = Num(0)

(***************************************************************************)
(* The path flattening of exportToCOCO, and both flattenings called on     *)
(* their own.                                                              *)
(***************************************************************************)
CurveSamples == 10     \* "Number of points to sample"

\* m / 10^e without trailing zeros
RECURSIVE Normal(_, _)
Normal(m, e) ==
  IF e > 0 /\ m % 10 = 0 THEN Normal(m \div 10, e - 1) ELSE Decimal(m, e)

\* A whole coordinate
Whole(n) == Decimal(n, 0)

\* approximateQuadraticCurve with numPoints = CurveSamples: the points at
\* t = i / 10 for i = 1..10, exact (the code computes them in floating
\* point).
approximateQuadraticCurve(x0, y0, x1, y1, x2, y2) ==
  [i \in 1..CurveSamples |->
     LET u == CurveSamples - i
     IN << Normal(u * u * x0 + 2 * u * i * x1 + i * i * x2, 2),
           Normal(u * u * y0 + 2 * u * i * y1 + i * i * y2, 2) >>]

\* approximateBezierCurve with numPoints = CurveSamples
approximateBezierCurve(x0, y0, x1, y1, x2, y2, x3, y3) ==
  [i \in 1..CurveSamples |->
     LET u == CurveSamples - i
     IN << Normal(u * u * u * x0 + 3 * u * u * i * x1 + 3 * u * i * i * x2
                    + i * i * i * x3, 3),
           Normal(u * u * u * y0 + 3 * u * u * i * y1 + 3 * u * i * i * y2
                    + i * i * i * y3, 3) >>]

\* The points exportToCOCO collects for a path: M and L push their
\* coordinate, C and Q push the sampled curve from the current point, Z
\* pushes the first point again. current is (currentX, currentY).
RECURSIVE exportPathPoints(_, _, _)
exportPathPoints(pathData, points, current) ==
  IF pathData = <<>> THEN points
  ELSE LET command == Head(pathData)
           a == command.args
       IN IF command.cmd \in {"M", "L"}
          THEN exportPathPoints(Tail(pathData),
                                Append(points, <<Whole(a[1]), Whole(a[2])>>),
                                <<a[1], a[2]>>)
          ELSE IF command.cmd = "C"
          THEN exportPathPoints(
                 Tail(pathData),
                 points \o approximateBezierCurve(current[1], current[2],
                                                  a[1], a[2], a[3], a[4],
                                                  a[5], a[6]),
                 <<a[5], a[6]>>)
          ELSE IF command.cmd = "Q"
          THEN exportPathPoints(
                 Tail(pathData),
                 points \o approximateQuadraticCurve(current[1], current[2],
                                                     a[1], a[2], a[3], a[4]),
                 <<a[3], a[4]>>)
          ELSE IF command.cmd = "Z" /\ points # <<>>
          THEN exportPathPoints(Tail(pathData), Append(points, points[1]),
                                current)
          ELSE exportPathPoints(Tail(pathData), points, current)

\* Path commands: move, line, quadratic, cubic, close, and a command the
\* flattening does not know.
MaxCommands == 3       \* commands of a path

Paths ==
  LET PathCommands ==
        { [cmd |-> "M", args |-> <<1, 1>>],
          [cmd |-> "L", args |-> <<4, 1>>],
          [cmd |-> "Q", args |-> <<4, 2, 2, 3>>],
          [cmd |-> "C", args |-> <<1, 2, 3, 4, 5, 6>>],
          [cmd |-> "Z", args |-> <<>>],
          [cmd |-> "H", args |-> <<9>>] }
  IN UNION {[1..n -> PathCommands] : n \in 0..MaxCommands}

InitFlatten ==
  /\ Mounted
  /\ scn = ScnIdle
  /\ result = NoResult
  /\ \E path \in Paths : args = [path |-> path]

\* The segmentation buildPathAnnotation emits for the path, and the one
\* exportToCOCO emits for it.
NextFlatten ==
  \/ /\ result.step = "none"
     /\ result' = [step |-> "buildPathAnnotation",
                   segmentation |->
                     buildPathAnnotation([path |-> args.path], Num(0),
                                         Num(1), 7).segmentation]
     /\ UNCHANGED args
     /\ ProgramIdle
  \/ /\ result.step = "none"
     /\ result' = [step |-> "exportToCOCO",
                   segmentation |->
                     <<flatten(exportPathPoints(args.path, <<>>, <<0, 0>>))>>]
     /\ UNCHANGED args
     /\ ProgramIdle

SpecFlatten == InitFlatten /\ [][NextFlatten]_vars

\* One point per move, line, cubic and quadratic command among the first k
\* commands, that command's terminal coordinate; a close command repeats the
\* first point if there is one; other commands give nothing.
RECURSIVE Terminals(_, _)
Terminals(pathData, k) ==
  IF k = 0 THEN <<>>
  ELSE LET before == Terminals(pathData, k - 1)
           cmd == pathData[k].cmd
           a == pathData[k].args
       IN CASE cmd \in {"M", "L", "C", "Q"} ->
                 Append(before, <<a[Len(a) - 1], a[Len(a)]>>)
            [] cmd = "Z" /\ before # <<>> -> Append(before, before[1])
            [] OTHER -> before

\* C31: flattening a stroke's path yields exactly one point per move, line,
\* cubic and quadratic command, its terminal coordinate, in command order;
\* a close command appends a copy of the first point when there is one; any
\* other command contributes nothing.
FlattenEmitsTerminalsOnly ==
  LET terminals == Terminals(args.path, Len(args.path))
  IN /\ result.step = "buildPathAnnotation"
          => result.segmentation = <<flatten(terminals)>>
     /\ result.step = "exportToCOCO"
          => result.segmentation =
               <<flatten([i \in DOMAIN terminals |->
                            <<Whole(terminals[i][1]),
                              Whole(terminals[i][2])>>])>>

\* C32: when an image fails to decode nothing is installed and the engine
\* state is unchanged: neither the request of the load nor its failure
\* changes the canvas objects, the background image, the annotation list or
\* the snapshot log.
FailedLoadChangesNothing ==
  [][lastEvent' \in {"handleFileUpload", "loadImageError"}
      => UNCHANGED <<objects, background, annotations, historyRef>>
    ]_vars

\* The decode of a second image has just failed: the first image is still
\* the background and the stroke drawn on it is still on the canvas.
SecondImageFailed ==
  /\ lastEvent = "loadImageError"
  /\ background # NoImage
  /\ imageUrl # background
  /\ CommittedObjects(objects) # <<>>
  /\ annotations # <<>>

(***************************************************************************)
(* The listeners of the tool effect. The effect is run on its own: args    *)
(* are the props tool, selectedClass and brushSize, result holds the       *)
(* listeners attached to the canvas, the two handler refs and              *)
(* isDrawingMode. A handler is a new function at every run of the effect;  *)
(* run stands for its identity, tool and class for what it closes over.    *)
(***************************************************************************)
MaxRuns == 5           \* runs of the tool effect after mount

NoHandler == [run |-> 0, tool |-> "none", class |-> NoClass]

\* canvas.off(event, handler)
off(listeners, handler) == SelectSeq(listeners, LAMBDA l : l # handler)

\* A variant of toolEffectCleanup below that forgets the refs without
\* detaching the handlers; OnlyCurrentToolListens tells the two apart.
toolEffectCleanupForgetting(h) ==
  [h EXCEPT !.handleMouseDownRef = NoHandler,
            !.handlePathCreatedRef = NoHandler]

\* The cleanup function of the tool effect: each handler a ref holds is
\* detached and the ref is cleared.
toolEffectCleanup(h) ==
  [h EXCEPT !.mouseDown = IF h.handleMouseDownRef # NoHandler
                          THEN off(@, h.handleMouseDownRef) ELSE @,
            !.handleMouseDownRef = NoHandler,
            !.pathCreated = IF h.handlePathCreatedRef # NoHandler
                            THEN off(@, h.handlePathCreatedRef) ELSE @,
            !.handlePathCreatedRef = NoHandler]

\* The body of the tool effect, run with the given props: the handlers the
\* refs hold are detached, then the handler of the tool is defined, stored
\* in its ref and attached.
toolEffect(h, props) ==
  LET detached ==
        [h EXCEPT !.mouseDown = IF h.handleMouseDownRef # NoHandler
                                THEN off(@, h.handleMouseDownRef) ELSE @,
                  !.pathCreated = IF h.handlePathCreatedRef # NoHandler
                                  THEN off(@, h.handlePathCreatedRef) ELSE @,
                  !.run = @ + 1]
      handler == [run |-> detached.run, tool |-> props.tool,
                  class |-> props.selectedClass]
  IN IF props.tool = "brush"
     THEN [detached EXCEPT !.isDrawingMode = TRUE,
                           !.handlePathCreatedRef = handler,
                           !.pathCreated = Append(@, handler)]
     ELSE IF props.tool = "polygon"
     THEN [detached EXCEPT !.isDrawingMode = FALSE,
                           !.handleMouseDownRef = handler,
                           !.mouseDown = Append(@, handler)]
     ELSE [detached EXCEPT !.isDrawingMode = FALSE]

\* Mount: the effect runs once with the props of the first render.
InitListeners ==
  LET NoListeners ==
        [step |-> "toolEffect", run |-> 0, mouseDown |-> <<>>,
         pathCreated |-> <<>>, handleMouseDownRef |-> NoHandler,
         handlePathCreatedRef |-> NoHandler, isDrawingMode |-> FALSE]
  IN /\ Mounted
     /\ scn = ScnIdle
     /\ \E t \in Tools \cup {"none"}, c \in ClassIds \cup {NoClass},
           b \in BrushSizes :
          /\ args = [tool |-> t, selectedClass |-> c, brushSize |-> b]
          /\ result = toolEffect(NoListeners, args)

\* A render with changed dependencies: the cleanup of the last run, then
\* the body with the new props.
rerun(props) ==
  /\ props # args
  /\ result.run <= MaxRuns
  /\ args' = props
  /\ result' = toolEffect(toolEffectCleanup(result), props)
  /\ ProgramIdle

NextListeners ==
  \/ \E t \in Tools \cup {"none"} : rerun([args EXCEPT !.tool = t])
  \/ \E c \in ClassIds \cup {NoClass} :
        rerun([args EXCEPT !.selectedClass = c])
  \/ \E b \in BrushSizes : rerun([args EXCEPT !.brushSize = b])

SpecListeners == InitListeners /\ [][NextListeners]_vars

\* C33: after any sequence of tool, class and brush-width changes only the
\* listeners of the active tool are attached, at most one pointer-down
\* handler and at most one stroke-completion handler, so that one stroke
\* completion appends one annotation and one pointer-down places at most
\* one vertex.
OnlyCurrentToolListens ==
  LET current == [run |-> result.run, tool |-> args.tool,
                  class |-> args.selectedClass]
  IN /\ result.mouseDown =
          (IF args.tool = "polygon" THEN <<current>> ELSE <<>>)
     /\ result.pathCreated =
          (IF args.tool = "brush" THEN <<current>> ELSE <<>>)
     /\ result.isDrawingMode = (args.tool = "brush")

\* After several runs of the effect the polygon tool is active with a class
\* selected, and its one handler is attached.
PolygonListensAfterChanges ==
  /\ result.run = MaxRuns
  /\ args.tool = "polygon"
  /\ args.selectedClass # NoClass
  /\ Len(result.mouseDown) = 1
  /\ result.pathCreated = <<>>

(***************************************************************************)
(* Script 8: the canvas on its own in the polygon tool with a class        *)
(* selected; clicks, render passes, and a host that changes the brushSize  *)
(* prop.                                                                   *)
(***************************************************************************)
NextWidth ==
  \/ \E p \in Pointers : HandledEngine(handleMouseDown(p)) /\ UNCHANGED scn
  \/ HandledEngine(renderFrame) /\ UNCHANGED scn
  \/ \E b \in BrushSizes : HandledEngine(brushSizeChanged(b)) /\ UNCHANGED scn

SpecWidth == InitPolygon /\ [][NextWidth]_vars

\* C34: a change of brush width alone while a polygon is under construction
\* runs the tool-switch protocol: afterwards no point marker and no guide
\* line remains on the canvas.
WidthChangeCleansUp ==
  [][lastEvent' = "setBrushSize" => Temporaries(objects') = <<>>]_vars

(***************************************************************************)
(* The class catalog of the page. handleAddClass is run on its own: args   *)
(* are the two fields of the dialog, result holds the catalog and the      *)
(* toast shown. Names and colours are sequences of characters.             *)
(***************************************************************************)
MaxClasses == 4        \* classes in the catalog

\* String.prototype.toLowerCase
toLowerCase(text) ==
  LET UpperLetters ==
        <<"A", "B", "C", "D", "E", "F", "G", "H", "I", "J", "K", "L", "M",
          "N", "O", "P", "Q", "R", "S", "T", "U", "V", "W", "X", "Y", "Z">>
      LowerLetters ==
        <<"a", "b", "c", "d", "e", "f", "g", "h", "i", "j", "k", "l", "m",
          "n", "o", "p", "q", "r", "s", "t", "u", "v", "w", "x", "y", "z">>
  IN [i \in DOMAIN text |->
        IF \E j \in DOMAIN UpperLetters : UpperLetters[j] = text[i]
        THEN LowerLetters[CHOOSE j \in DOMAIN UpperLetters :
                            UpperLetters[j] = text[i]]
        ELSE text[i]]

\* The first two entries of initialClasses
initialClasses ==
  << [id |-> 1, name |-> <<"C", "a", "r">>,
      color |-> <<"#", "F", "F", "0", "0", "0", "0">>],
     [id |-> 2, name |-> <<"T", "r", "e", "e">>,
      color |-> <<"#", "0", "0", "F", "F", "0", "0">>] >>

InitClasses ==
  /\ Mounted
  /\ scn = ScnIdle
  /\ args = NoArgs
  /\ result = [step |-> "mounted", classes |-> initialClasses,
               added |-> FALSE]

\* handleAddClass and its three tests: both fields filled, the colour not
\* included in the colours taken, no class of the same lower-cased name.
handleAddClass(newClassName, newClassColor) ==
  LET catalog == result.classes
      accepted ==
        /\ newClassName # <<>> /\ newClassColor # <<>>
        /\ \A i \in DOMAIN catalog : catalog[i].color # newClassColor
        /\ \A i \in DOMAIN catalog :
              toLowerCase(catalog[i].name) # toLowerCase(newClassName)
      newClass == [id |-> Len(catalog) + 1, name |-> newClassName,
                   color |-> newClassColor]
  IN /\ accepted => Len(catalog) < MaxClasses
     /\ args' = [newClassName |-> newClassName,
                 newClassColor |-> newClassColor]
     /\ result' = [step |-> "handleAddClass",
                   classes |-> IF accepted THEN Append(catalog, newClass)
                               ELSE catalog,
                   added |-> accepted]
     /\ ProgramIdle

\* The name field may hold nothing, the name of a class in either case,
\* or a new name; the colour field nothing, the colour of a class as the
\* catalog writes it, "#ff0000" (the initial value of the field, and what a
\* colour picker reports), or a new colour.
NextClasses ==
  LET NewNames ==
        { <<>>, <<"C", "a", "r">>, <<"c", "a", "r">>, <<"B", "u", "s">>,
          <<"V", "a", "n">> }
      NewColors ==
        { <<>>, <<"#", "F", "F", "0", "0", "0", "0">>,
          <<"#", "f", "f", "0", "0", "0", "0">>,
          <<"#", "0", "0", "f", "f", "0", "0">>,
          <<"#", "1", "2", "3", "4", "5", "6">> }
  IN \E n \in NewNames, c \in NewColors : handleAddClass(n, c)

SpecClasses == InitClasses /\ [][NextClasses]_vars

\* C35: after any sequence of add-class operations from the initial
\* catalog no two classes have the same colour compared case-insensitively
\* and no two the same name compared case-insensitively, and a rejected
\* add leaves the catalog unchanged.
CatalogHasNoDuplicates ==
  [][LET SameColor(a, b) == toUpperCase(a.color) = toUpperCase(b.color)
         SameName(a, b) == toLowerCase(a.name) = toLowerCase(b.name)
     IN /\ \A i, j \in DOMAIN result'.classes :
             i # j => /\ ~SameColor(result'.classes[i], result'.classes[j])
                      /\ ~SameName(result'.classes[i], result'.classes[j])
        /\ ~result'.added => result'.classes = result.classes
    ]_vars

\* C36: in every reachable state the point markers and guide lines on the
\* canvas are exactly the objects the marker stack and the guide-line stack
\* hold, the same objects in the same number, also after an export, an
\* undo, a brush-width change and a restore.
StacksMatchCanvas ==
  /\ Markers(objects) = currentPolygonPoints
  /\ Guides(objects) = currentPolygonLines

(***************************************************************************)
(* Script 9: strokes, render passes and undo() on the canvas in the brush  *)
(* tool, where the promise of util.enlivenObjects settles either way: it   *)
(* resolves (restored) or it rejects. undo() chains then() only, so a      *)
(* rejection runs no code of the program. A pending promise settles        *)
(* whatever else the page does, and settles eventually.                    *)
(***************************************************************************)
restoreFailed(i) ==
  /\ i \in DOMAIN restores
  /\ lastEvent' = "restoreFailed"
  /\ download' = NoDownload
  /\ restores' = DropAt(restores, i)
  /\ UNCHANGED <<objects, background, annotations, historyRef,
                 currentPolygonPoints, currentPolygonLines,
                 isRestoringState, renderRequested, tool, selectedClass,
                 brushSize, imageUrl, loads>>

settle ==
  /\ \E i \in 1..MaxRestores : restored(i) \/ restoreFailed(i)
  /\ UNCHANGED <<events, args, result, scn>>

NextRestore ==
  \/ Handled(handlePathCreated) /\ UNCHANGED scn
  \/ Handled(renderFrame) /\ UNCHANGED scn
  \/ Handled(undo) /\ UNCHANGED scn
  \/ settle

SpecRestore == InitOverlap /\ [][NextRestore]_vars /\ WF_vars(settle)

\* C37: every undo() that sets the restoring flag is eventually followed by
\* the flag being cleared, also when the reconstruction of the objects
\* fails, so that snapshots on render passes resume.
RestoringFlagIsCleared ==
  (lastEvent = "undo" /\ isRestoringState) ~> ~isRestoringState

\* C38: in every built document the cross-references resolve: the image_id
\* of each annotation is the id of the one images entry, also when no image
\* id is bound, and its category_id is the id of some categories entry.
CrossReferencesResolve ==
  result.step = "buildCOCOData" =>
    \A i \in DOMAIN result.doc.annotations :
      LET annotation == result.doc.annotations[i]
      IN /\ annotation.image_id = result.doc.images[1].id
         /\ \E j \in DOMAIN result.doc.categories :
               annotation.category_id = result.doc.categories[j].id

(***************************************************************************)
(* Script 10: files uploaded one after another in the brush tool, with a   *)
(* second decode started while the first is pending, every decode          *)
(* succeeding, in any order; strokes in between. scn.before holds the      *)
(* canvas objects at the moment the latest source was supplied.            *)
(***************************************************************************)
HandledLoads(handler) ==
  /\ events < MaxEvents
  /\ handler
  /\ events' = events + 1
  /\ Len(objects') <= MaxObjects
  /\ Len(annotations') <= MaxAnnotations
  /\ Len(loads') <= MaxLoads + 1
  /\ UNCHANGED <<args, result>>

NextLoads ==
  \/ \E u \in Images :
        /\ HandledLoads(handleFileUpload(u))
        /\ scn' = IF u = imageUrl THEN scn ELSE [scn EXCEPT !.before = objects]
  \/ \E i \in 1..(MaxLoads + 1) :
        HandledLoads(imageLoaded(i)) /\ UNCHANGED scn
  \/ HandledLoads(handlePathCreated) /\ UNCHANGED scn

SpecLoads == InitOverlap /\ [][NextLoads]_vars

\* C39: when sources are supplied one after another and their decodes
\* complete in any order, once no load is pending the background image is
\* the one of the most recently supplied source, and a stale earlier load
\* clears no object drawn after that source was supplied.
LatestSourceWins ==
  [][/\ (loads' = <<>> /\ imageUrl' # NoImage) => background' = imageUrl'
     /\ (lastEvent' = "loadImage" /\ background' # imageUrl')
          => \A i \in DOMAIN objects :
                objects[i].id \notin Ids(scn.before)
                  => objects[i].id \in Ids(objects')
    ]_vars

====
